---- MODULE Spec2Model ----
(***************************************************************************)
(* A model of the news-article summariser: the HTTP service of src/api.py  *)
(* (analyze_company, get_task_status, get_available_companies) and the     *)
(* analysis pipeline of src/utils.py (NewsAnalyzer).                       *)
(*                                                                         *)
(* Strings the code transforms (company names, task ids) are sequences of  *)
(* one-character strings, so that strip, replace and lower are computed.   *)
(* A Python dict is a function; a dict whose keys vary from one value to   *)
(* the next is a record with a field "keys" naming the keys it holds.      *)
(***************************************************************************)
EXTENDS Integers, Sequences, FiniteSets, TLC

VARIABLES
    analysis_cache,    \* api.py:35  company name -> result
    background_tasks,  \* api.py:54  the module-level registry get_task_status reads
    inflight,          \* requests received by the server, handler not yet run
    responses,         \* responses the server has sent
    nreq,              \* number of requests issued so far
    run,               \* one invocation of NewsAnalyzer.analyze_company_news
    workers,           \* the process_article coroutines of the run, by URL position
    agg,               \* one call of NewsAnalyzer.perform_comparative_analysis
    call,              \* one call of a text function of NewsAnalyzer
    resolve,           \* one call of NewsAnalyzer.get_google_news_urls
    pool,              \* utils.py:74  the thread pool self.executor
    loop               \* the event loop that runs the coroutines

apiVars == <<analysis_cache, background_tasks, inflight, responses, nreq>>

vars ==
    <<analysis_cache, background_tasks, inflight, responses, nreq, run, workers, agg,
      call, resolve, pool, loop>>

harnessVars == <<resolve, pool, loop>>

----------------------------------------------------------------------------
(* Bounds of the model *)

MaxRequests == 3

\* entries of the news feed of one run
MaxFeed == 2

\* articles handed to one direct call of the comparative analysis
MaxArticles == 3

\* articles of one direct call when they differ in their labels only
MaxLabelled == 5

----------------------------------------------------------------------------
(* Strings *)

\* str.strip() removes leading and trailing whitespace
IsSpace(ch) == ch = " "

RECURSIVE lstrip(_)
lstrip(s) == IF s # <<>> /\ IsSpace(Head(s)) THEN lstrip(Tail(s)) ELSE s

RECURSIVE rstrip(_)
rstrip(s) ==
    IF s # <<>> /\ IsSpace(s[Len(s)]) THEN rstrip(SubSeq(s, 1, Len(s) - 1)) ELSE s

strip(s) == rstrip(lstrip(s))

lower_char(ch) == CASE ch = "A" -> "a" [] ch = "B" -> "b" [] OTHER -> ch

lower(s) == [i \in 1..Len(s) |-> lower_char(s[i])]

replace(s, old, new) == [i \in 1..Len(s) |-> IF s[i] = old THEN new ELSE s[i]]

\* api.py:85  f"task_{company_name.replace(' ', '_').lower()}"
task_id_of(company_name) ==
    <<"t", "a", "s", "k", "_">> \o lower(replace(company_name, " ", "_"))

\* The company names a client may send: empty, blank, and names that differ
\* only in case, in spaces versus underscores, or in surrounding blanks.
RequestNames ==
    { <<>>, <<" ">>, <<"A", "b">>, <<"a", "b">>, <<" ", "A", "b">>,
      <<"A", " ", "b">>, <<"a", "_", "b">>, <<"B">> }

\* The task ids a client may poll: the id computed for each name, and the
\* name itself (the task_id of a cache hit, api.py:79).
PollIds ==
    { task_id_of(strip(n)) : n \in RequestNames } \cup { strip(n) : n \in RequestNames }

EmptyDict == [k \in {} |-> {}]

----------------------------------------------------------------------------
(* Values of the pipeline, src/utils.py *)

Min(a, b) == IF a <= b THEN a ELSE b

\* A text is known by what it holds and by its number of characters.
Text(tag, len) == [tag |-> tag, len |-> len]

NoneText == Text("None", 0)

EmptyText == Text("", 0)

\* Python's truth value of a str or None
Truthy(text) == text.len > 0

\* text[:n]
Prefix(text, n) == IF text.len <= n THEN text ELSE Text(text.tag, n)

\* text[:n] if text else ""
Limit(text, n) == IF Truthy(text) THEN Prefix(text, n) ELSE EmptyText

\* slices and defaults of the analyzers
SentimentInputLimit == 1024

SummaryInputLimit == 1024

SummaryMaxLength == 150

KeywordInputLimit == 2048

TopN == 5

TranslateLimit == 1500

TtsLimit == 500

MaxResults == 15

ArticleLimit == 10

\* scores in hundredths
DefaultScore == 50

ModelScore == 90

\* lengths of the texts the external services return in this model
BodyLength == 200

SummaryLength == 120

HindiLength == 80

----------------------------------------------------------------------------
(* Content extraction, utils.py:117-152 *)

Content(keys, title, text, url, error) ==
    [keys |-> keys, title |-> title, text |-> text, url |-> url, error |-> error]

\* What the page fetch and the extraction engine may do for one URL.
ExtractOutcomes == {"download_failed", "raised", "no_body", "ok"}

extract_article_content(url, out) ==
    CASE out = "download_failed" ->
            Content({"title", "text", "url", "error"}, "", EmptyText, url,
                    "Failed to download page")
      [] out = "raised" ->
            Content({"title", "text", "url", "error"}, "", EmptyText, url, "str(e)")
      [] out = "no_body" ->
            \* trafilatura.extract returned None: no "error" key is set
            Content({"title", "text", "url"}, "T", NoneText, url, "")
      [] OTHER ->
            Content({"title", "text", "url"}, "T", Text("body", BodyLength), url, "")

----------------------------------------------------------------------------
(* The three analyzers, utils.py:154-250 *)

Sentiment(label, score) == [label |-> label, score |-> score]

\* What the classifier may do: raise, or return one of its labels; LABEL_3
\* stands for a label the mapping of utils.py:174-178 does not list.
ClassifierOutcomes ==
    { [raises |-> TRUE, label |-> "", score |-> 0] } \cup
    { [raises |-> FALSE, label |-> l, score |-> ModelScore] :
        l \in {"LABEL_0", "LABEL_1", "LABEL_2", "LABEL_3"} }

\* label_mapping.get(result["label"], result["label"])
label_mapping(label) ==
    CASE label = "LABEL_0" -> "NEGATIVE"
      [] label = "LABEL_1" -> "NEUTRAL"
      [] label = "LABEL_2" -> "POSITIVE"
      [] OTHER -> label

analyze_sentiment(text, out) ==
    LET t == Limit(text, SentimentInputLimit) IN
    IF ~Truthy(t) THEN Sentiment("NEUTRAL", DefaultScore)
    ELSE IF out.raises THEN Sentiment("NEUTRAL", DefaultScore)
    ELSE Sentiment(label_mapping(out.label), out.score)

SummarizerOutcomes ==
    { [raises |-> TRUE, len |-> 0], [raises |-> FALSE, len |-> SummaryLength] }

summarize_text(text, max_length, out) ==
    LET t == Limit(text, SummaryInputLimit) IN
    IF ~Truthy(t) THEN EmptyText
    ELSE IF out.raises
    THEN \* text[:max_length] + "..." if len(text) > max_length else text
         IF t.len > max_length THEN Text("fallback", max_length + 3) ELSE t
    ELSE Text("summary", out.len)

\* str.capitalize() on the keywords of this model
capitalize(word) ==
    CASE word = "sales" -> "Sales"
      [] word = "regulation" -> "Regulation"
      [] word = "ai chips" -> "Ai chips"
      [] OTHER -> word

KeywordOutcomes ==
    { [raises |-> TRUE, keywords |-> <<>>],
      [raises |-> FALSE, keywords |-> <<"sales">>] }

extract_keywords(text, top_n, out) ==
    LET t == Limit(text, KeywordInputLimit) IN
    IF ~Truthy(t) THEN <<>>
    ELSE IF out.raises THEN <<>>
    ELSE [k \in 1..Len(out.keywords) |-> capitalize(out.keywords[k])]

----------------------------------------------------------------------------
(* Articles *)

NoSentiment == Sentiment("", 0)

Article(title, summary, sentiment, topics, url) ==
    [keys |-> {"title", "summary", "sentiment", "topics", "url"},
     title |-> title, summary |-> summary, sentiment |-> sentiment,
     topics |-> topics, url |-> url, error |-> ""]

ErrorEntry(url, error) ==
    [keys |-> {"url", "error"},
     title |-> "", summary |-> EmptyText, sentiment |-> NoSentiment,
     topics |-> <<>>, url |-> url, error |-> error]

----------------------------------------------------------------------------
(* Comparative analysis, utils.py:310-388 *)

Labels3 == {"POSITIVE", "NEGATIVE", "NEUTRAL"}

\* utils.py:322
ZeroCount == [l \in Labels3 |-> 0]

RECURSIVE count_sentiments(_, _, _)

\* sentiment_count[sentiment] = 1 for sentiment_count[sentiment] += 1
count_sentiments_assigns_one(articles, i, sentiment_count) ==
    IF i > Len(articles)
    THEN [raised |-> FALSE, key |-> "", count |-> sentiment_count]
    ELSE LET sentiment == IF "sentiment" \in articles[i].keys
                          THEN articles[i].sentiment.label
                          ELSE "NEUTRAL"
         IN  IF sentiment \notin DOMAIN sentiment_count
             THEN [raised |-> TRUE, key |-> sentiment, count |-> sentiment_count]
             ELSE count_sentiments(articles, i + 1,
                      [sentiment_count EXCEPT ![sentiment] = 1])

\* utils.py:323-325; sentiment_count[sentiment] raises KeyError for a label
\* that is not one of its three keys
count_sentiments(articles, i, sentiment_count) ==
    IF i > Len(articles)
    THEN [raised |-> FALSE, key |-> "", count |-> sentiment_count]
    ELSE LET sentiment == IF "sentiment" \in articles[i].keys
                          THEN articles[i].sentiment.label
                          ELSE "NEUTRAL"
         IN  IF sentiment \notin DOMAIN sentiment_count
             THEN [raised |-> TRUE, key |-> sentiment, count |-> sentiment_count]
             ELSE count_sentiments(articles, i + 1,
                      [sentiment_count EXCEPT ![sentiment] = @ + 1])

\* all_topics is a dict in insertion order: a sequence of <<topic, count>>
\* utils.py:334-337
add_topic(all_topics, topic) ==
    IF \E k \in 1..Len(all_topics) : all_topics[k][1] = topic
    THEN [k \in 1..Len(all_topics) |->
            IF all_topics[k][1] = topic
            THEN <<topic, all_topics[k][2] + 1>>
            ELSE all_topics[k]]
    ELSE Append(all_topics, <<topic, 1>>)

\* utils.py:333
RECURSIVE add_topics(_, _)
add_topics(all_topics, topics) ==
    IF topics = <<>> THEN all_topics
    ELSE add_topics(add_topic(all_topics, Head(topics)), Tail(topics))

\* utils.py:331-332
RECURSIVE collect_topics(_, _)
collect_topics(articles, all_topics) ==
    IF articles = <<>> THEN all_topics
    ELSE collect_topics(Tail(articles),
            add_topics(all_topics,
                       IF "topics" \in Head(articles).keys
                       THEN Head(articles).topics ELSE <<>>))

\* count >= 1 for count > 1
IsCommon_at_least_one(pair) == pair[2] >= 1

IsCommon(pair) == pair[2] > 1

\* utils.py:341
common_topics(all_topics) ==
    LET sel == SelectSeq(all_topics, IsCommon)
    IN  [k \in 1..Len(sel) |-> sel[k][1]]

\* str.lower() on the sentiment labels
lower_label(label) ==
    CASE label = "POSITIVE" -> "positive"
      [] label = "NEGATIVE" -> "negative"
      [] label = "NEUTRAL" -> "neutral"
      [] label = "LABEL_3" -> "label_3"
      [] OTHER -> label

WindowFirst == 3

WindowSecond == 4

\* utils.py:354-357: the sentence names i+1, j+1 and the two labels
Comparison(first, second, sentiment_first, sentiment_second) ==
    [first |-> first, second |-> second,
     sentiment_first |-> sentiment_first, sentiment_second |-> sentiment_second,
     Impact |-> "varying perspectives"]

\* utils.py:348-358, i and j are Python's 0-based indices
RECURSIVE compare_inner(_, _, _, _)

\* range(i+1, len(articles)) for range(i+1, min(4, len(articles)))
compare_inner_to_the_end(articles, i, j, comparisons) ==
    IF j >= Len(articles) THEN comparisons
    ELSE compare_inner(articles, i, j + 1,
            IF /\ i # j
               /\ "sentiment" \in articles[i + 1].keys
               /\ "sentiment" \in articles[j + 1].keys
               /\ articles[i + 1].sentiment.label # articles[j + 1].sentiment.label
            THEN Append(comparisons,
                        Comparison(i + 1, j + 1,
                                   lower_label(articles[i + 1].sentiment.label),
                                   lower_label(articles[j + 1].sentiment.label)))
            ELSE comparisons)

compare_inner(articles, i, j, comparisons) ==
    IF j >= Min(WindowSecond, Len(articles)) THEN comparisons
    ELSE compare_inner(articles, i, j + 1,
            IF /\ i # j
               /\ "sentiment" \in articles[i + 1].keys
               /\ "sentiment" \in articles[j + 1].keys
               /\ articles[i + 1].sentiment.label # articles[j + 1].sentiment.label
            THEN Append(comparisons,
                        Comparison(i + 1, j + 1,
                                   lower_label(articles[i + 1].sentiment.label),
                                   lower_label(articles[j + 1].sentiment.label)))
            ELSE comparisons)

\* utils.py:347
RECURSIVE compare_outer(_, _, _)
compare_outer(articles, i, comparisons) ==
    IF i >= Min(WindowFirst, Len(articles)) THEN comparisons
    ELSE compare_outer(articles, i + 1, compare_inner(articles, i, i + 1, comparisons))

\* utils.py:344-358
coverage_differences(articles) ==
    IF Len(articles) >= 2 THEN compare_outer(articles, 0, <<>>) ELSE <<>>

\* the threshold 0.6 of utils.py:364 and 367, as 6/10
ThresholdNum == 6

ThresholdDen == 10

\* >= for >
ratio_exceeds_or_equals(count, n) == n > 0 /\ count * ThresholdDen >= ThresholdNum * n

\* count / len(articles) > 0.6; Python's true division is correctly rounded,
\* so the comparison with the literal 0.6 is the comparison of the fractions
ratio_exceeds(count, n) == n > 0 /\ count * ThresholdDen > ThresholdNum * n

\* the sentence of utils.py:380 and its number of characters
Verdict(final_sentiment, expectation, len) ==
    [final_sentiment |-> final_sentiment, expectation |-> expectation, len |-> len]

\* the default "" of comparative_analysis.get("Final Sentiment Analysis", "")
EmptyVerdict == Verdict("", "", 0)

\* utils.py:361-372
final_assessment(sentiment_count, n) ==
    IF ratio_exceeds(sentiment_count["POSITIVE"], n)
    THEN Verdict("mostly positive", "Potential positive impact expected.", 90)
    ELSE IF ratio_exceeds(sentiment_count["NEGATIVE"], n)
    THEN Verdict("mostly negative", "Potential challenges might be ahead.", 91)
    ELSE Verdict("mixed",
                 "The situation appears complex with both positive and negative aspects.",
                 115)

ComparativeKeys ==
    {"Sentiment Distribution", "Coverage Differences", "Topic Overlap",
     "Final Sentiment Analysis"}

Comparative(keys, dist, diffs, common, topic_dist, final, error) ==
    [keys |-> keys, SentimentDistribution |-> dist, CoverageDifferences |-> diffs,
     CommonTopics |-> common, TopicDistribution |-> topic_dist,
     FinalSentimentAnalysis |-> final, error |-> error]

NoComparative == Comparative({}, ZeroCount, <<>>, <<>>, <<>>, EmptyVerdict, "")

perform_comparative_analysis(articles) ==
    LET counted == count_sentiments(articles, 1, ZeroCount) IN
    IF counted.raised
    THEN \* utils.py:386-388
         Comparative({"error"}, ZeroCount, <<>>, <<>>, <<>>, EmptyVerdict, counted.key)
    ELSE LET all_topics == collect_topics(articles, <<>>)
         IN  Comparative(ComparativeKeys, counted.count,
                         coverage_differences(articles),
                         common_topics(all_topics), all_topics,
                         final_assessment(counted.count, Len(articles)), "")

----------------------------------------------------------------------------
(* Translation and speech, utils.py:252-308 *)

TranslatorOutcomes ==
    { [raises |-> TRUE, len |-> 0], [raises |-> FALSE, len |-> HindiLength] }

translate_to_hindi(text, out) ==
    LET t == Limit(text, TranslateLimit) IN
    IF ~Truthy(t) THEN EmptyText
    ELSE IF out.raises THEN t
    ELSE Text("hindi", out.len)

SynthesizerOutcomes == { [raises |-> TRUE], [raises |-> FALSE] }

\* the except branch returning its argument for ""
generate_tts_returns_text(hindi_text, out) ==
    LET t == Limit(hindi_text, TtsLimit) IN
    IF ~Truthy(t) THEN EmptyText
    ELSE IF out.raises THEN t
    ELSE Text("audio", t.len)

\* the base64 text of the audio; its length is not modelled
generate_tts(hindi_text, out) ==
    LET t == Limit(hindi_text, TtsLimit) IN
    IF ~Truthy(t) THEN EmptyText
    ELSE IF out.raises THEN EmptyText
    ELSE Text("audio", t.len)

----------------------------------------------------------------------------
(* The source resolver, utils.py:76-115 *)

RedirectOutcomes == {"ok", "non200", "raised"}

\* A feed: the parse raises, or it yields entries; entry k redirects to the
\* final URL k, and its redirect follow has one of the three outcomes.
Feeds ==
    { [raises |-> TRUE, entries |-> <<>>] } \cup
    { [raises |-> FALSE, entries |-> e] :
        e \in UNION { [1..n -> RedirectOutcomes] : n \in 0..MaxFeed } }

\* utils.py:98-109
RECURSIVE follow_redirects(_, _, _)

\* the test of the status code left out: every answer is taken
follow_redirects_any_answer(entries, k, urls) ==
    IF k > Len(entries) THEN urls
    ELSE follow_redirects(entries, k + 1,
            IF entries[k] # "raised" THEN Append(urls, k) ELSE urls)

follow_redirects(entries, k, urls) ==
    IF k > Len(entries) THEN urls
    ELSE follow_redirects(entries, k + 1,
            IF entries[k] = "ok" THEN Append(urls, k) ELSE urls)

\* a slice that keeps the whole list
Take_whole(seq, n) == seq

Take(seq, n) == SubSeq(seq, 1, Min(n, Len(seq)))

get_google_news_urls(feed, max_results) ==
    IF feed.raises THEN <<>>
    ELSE follow_redirects(Take(feed.entries, max_results), 1, <<>>)

----------------------------------------------------------------------------
(* One run of analyze_company_news, utils.py:432-496 *)

Result(keys, company, error, articles, comparative, final, hindi, audio) ==
    [keys |-> keys, Company |-> company, error |-> error, Articles |-> articles,
     ComparativeSentimentScore |-> comparative, FinalSentimentAnalysis |-> final,
     HindiText |-> hindi, Audio |-> audio]

NoResult == Result({}, <<>>, "", <<>>, NoComparative, EmptyVerdict, EmptyText, EmptyText)

ErrorResult(company, error) ==
    Result({"Company", "error"}, company, error, <<>>, NoComparative, EmptyVerdict,
           EmptyText, EmptyText)

SuccessKeys ==
    {"Company", "Articles", "Comparative Sentiment Score", "Final Sentiment Analysis",
     "Hindi Text", "Audio"}

NoCalls == [aggregate |-> 0, translate |-> 0, tts |-> 0]

IdleRun ==
    [pc |-> "idle", company_name |-> <<>>, urls |-> <<>>, valid_articles |-> <<>>,
     comparative_analysis |-> NoComparative, final_sentiment |-> EmptyVerdict,
     tts_text |-> EmptyText, hindi_text |-> EmptyText, result |-> NoResult,
     calls |-> NoCalls, done_order |-> <<>>, out_of_order |-> FALSE,
     tts_raised |-> FALSE, resolved |-> <<>>]

RunCompanies == { <<"A", "b">> }

IdleAgg == [pc |-> "idle", articles |-> <<>>, result |-> NoComparative]

\* a call of get_google_news_urls: the feed it reads, its argument and what
\* it returned
IdleResolve ==
    [pc |-> "idle", feed |-> [raises |-> FALSE, entries |-> <<>>], max_results |-> 0,
     urls |-> <<>>, raised |-> FALSE]

\* the executor: the work items waiting in its queue, in the order they were
\* submitted, those a thread is running, and those that have returned
IdlePool == [queue |-> <<>>, running |-> {}, done |-> {}]

\* the event loop: what its thread is running, where the run that it
\* drives stands in utils.py:444-455, and the process_article coroutines of
\* another run, each waiting for its executor call or ready to be resumed
IdleLoop ==
    [thread |-> "free", pc |-> "idle", entries |-> <<>>, k |-> 0, urls |-> <<>>,
     others |-> <<>>, resumed |-> 0]

\* A direct call of one of the text functions: its argument, whether the
\* external model or service it uses raised, the label the classifier gave,
\* and what the function returned.
IdleCall ==
    [pc |-> "idle", fn |-> "", text |-> EmptyText, raised |-> FALSE, label |-> "",
     summary |-> EmptyText, sentiment |-> NoSentiment, keywords |-> <<>>,
     hindi |-> EmptyText, audio |-> EmptyText]

NoContent == Content({}, "", EmptyText, 0, "")

NoArticle == [keys |-> {}, title |-> "", summary |-> EmptyText,
              sentiment |-> NoSentiment, topics |-> <<>>, url |-> 0, error |-> ""]

\* A process_article coroutine: where it stands, its locals, what it returned,
\* the calls it has made and the analyzers whose model call raised.
NewWorker(url) ==
    [url |-> url, stage |-> "extract", content |-> NoContent, summary |-> EmptyText,
     sentiment |-> NoSentiment, topics |-> <<>>, result |-> NoArticle,
     calls |-> [extract |-> 0, summarize |-> 0, sentiment |-> 0, keywords |-> 0],
     raised |-> {}]

\* number of characters of the fixed phrase of utils.py:471 between the
\* company name and the verdict
PhraseLength == 30

\* utils.py:444-455: resolve, and start one process_article per URL
\* resolved records what the resolver returned, before the cut of line 453
RunResolveFrom(feeds) ==
    /\ run.pc = "start"
    /\ \E feed \in feeds :
        LET urls == get_google_news_urls(feed, MaxResults) IN
        IF urls = <<>>
        THEN /\ run' = [run EXCEPT !.pc = "returned",
                          !.result = ErrorResult(run.company_name,
                                        "No news articles found for this company")]
             /\ workers' = <<>>
        ELSE LET first == Take(urls, ArticleLimit) IN
             /\ run' = [run EXCEPT !.pc = "gather", !.urls = first,
                                   !.resolved = urls]
             /\ workers' = [i \in 1..Len(first) |-> NewWorker(first[i])]
    /\ UNCHANGED <<apiVars, call, agg, harnessVars>>

RunResolve == RunResolveFrom(Feeds)

\* a process_article coroutine returns; done_order lists the positions in
\* the order the coroutines finished, and out_of_order records that one
\* finished before a coroutine of an earlier URL
Finish(i, w, result) ==
    /\ workers' = [workers EXCEPT ![i] = [w EXCEPT !.stage = "done", !.result = result]]
    /\ run' = [run EXCEPT
                  !.done_order = Append(@, i),
                  !.out_of_order = @ \/ \E j \in 1..(i - 1) : workers[j].stage # "done"]

no_content_error_only(content) ==
    "error" \in content.keys /\ content.error # ""

\* utils.py:405: not content.get("text") or content.get("error")
no_content(content) ==
    \/ ~Truthy(content.text)
    \/ ("error" \in content.keys /\ content.error # "")

\* utils.py:403-407
ProcessExtract ==
    /\ run.pc = "gather"
    /\ \E i \in 1..Len(workers) : \E out \in ExtractOutcomes :
        LET content == extract_article_content(workers[i].url, out)
            w == [workers[i] EXCEPT !.content = content, !.calls.extract = @ + 1]
        IN  /\ workers[i].stage = "extract"
            /\ IF no_content(content)
               THEN Finish(i, w, ErrorEntry(w.url,
                        IF "error" \in content.keys THEN content.error
                        ELSE "No content extracted"))
               ELSE /\ workers' = [workers EXCEPT ![i] = [w EXCEPT !.stage = "summarize"]]
                    /\ UNCHANGED run
    /\ UNCHANGED <<apiVars, call, agg, harnessVars>>

\* utils.py:410
ProcessSummarize ==
    /\ run.pc = "gather"
    /\ \E i \in 1..Len(workers) : \E out \in SummarizerOutcomes :
        /\ workers[i].stage = "summarize"
        /\ workers' = [workers EXCEPT ![i] =
              [workers[i] EXCEPT
                  !.stage = "sentiment",
                  !.summary = summarize_text(workers[i].content.text,
                                             SummaryMaxLength, out),
                  !.calls.summarize = @ + 1,
                  !.raised = IF out.raises THEN @ \cup {"summarize"} ELSE @]]
    /\ UNCHANGED <<apiVars, call, agg, run, harnessVars>>

\* utils.py:413
ProcessSentiment ==
    /\ run.pc = "gather"
    /\ \E i \in 1..Len(workers) : \E out \in ClassifierOutcomes :
        /\ workers[i].stage = "sentiment"
        /\ workers' = [workers EXCEPT ![i] =
              [workers[i] EXCEPT
                  !.stage = "keywords",
                  !.sentiment = analyze_sentiment(workers[i].content.text, out),
                  !.calls.sentiment = @ + 1,
                  !.raised = IF out.raises THEN @ \cup {"sentiment"} ELSE @]]
    /\ UNCHANGED <<apiVars, call, agg, run, harnessVars>>

\* utils.py:416-427
ProcessKeywords ==
    /\ run.pc = "gather"
    /\ \E i \in 1..Len(workers) : \E out \in KeywordOutcomes :
        LET topics == extract_keywords(workers[i].content.text, TopN, out)
            w == [workers[i] EXCEPT
                      !.calls.keywords = @ + 1,
                      !.topics = topics,
                      !.raised = IF out.raises THEN @ \cup {"keywords"} ELSE @]
        IN  /\ workers[i].stage = "keywords"
            /\ Finish(i, w, Article(w.content.title, w.summary, w.sentiment,
                                    topics, w.url))
    /\ UNCHANGED <<apiVars, call, agg, harnessVars>>

\* the results in the order the coroutines finished (asyncio.as_completed)
\* a wait that returns with the first coroutine that finishes
gather_returns_first_completed(ws) == \E i \in 1..Len(ws) : ws[i].stage = "done"

\* utils.py:455: await asyncio.gather(*tasks) resumes the run when every
\* process_article coroutine has returned
gather_returns(ws) == \A i \in 1..Len(ws) : ws[i].stage = "done"

gather_as_completed(ws, done_order) ==
    [k \in 1..Len(done_order) |-> ws[done_order[k]].result]

\* asyncio.gather returns the results in the order of the awaitables,
\* whatever the order they finished in
gather(ws, done_order) == [i \in 1..Len(ws) |-> ws[i].result]

\* a filter that keeps the failed entries
IsValid_keeps_failed(article) == "url" \in article.keys

IsValid(article) == "error" \notin article.keys

\* utils.py:458
filter_valid(articles) == SelectSeq(articles, IsValid)

\* the check of utils.py:460 left out
no_valid_unchecked(valid_articles) == FALSE

\* utils.py:460  if not valid_articles
no_valid(valid_articles) == valid_articles = <<>>

\* utils.py:455-475: gather returns, the valid articles are kept and compared
RunGathered ==
    /\ run.pc = "gather"
    /\ gather_returns(workers)
    /\ LET articles == gather(workers, run.done_order)
           valid_articles == filter_valid(articles)
       IN  IF no_valid(valid_articles)
           THEN run' = [run EXCEPT !.pc = "returned",
                           !.done_order = <<>>,
                           !.result = ErrorResult(run.company_name,
                                "Could not process any articles for this company")]
           ELSE LET comparative_analysis == perform_comparative_analysis(valid_articles)
                    final_sentiment ==
                        IF "Final Sentiment Analysis" \in comparative_analysis.keys
                        THEN comparative_analysis.FinalSentimentAnalysis
                        ELSE EmptyVerdict
                IN  run' = [run EXCEPT !.pc = "translate",
                              !.done_order = <<>>,
                              !.valid_articles = valid_articles,
                              !.comparative_analysis = comparative_analysis,
                              !.final_sentiment = final_sentiment,
                              !.tts_text = Text("tts_text",
                                   Len(run.company_name) + PhraseLength
                                   + final_sentiment.len),
                              !.calls.aggregate = @ + 1]
    /\ UNCHANGED <<apiVars, call, agg, workers, harnessVars>>

\* utils.py:475
RunTranslate ==
    /\ run.pc = "translate"
    /\ \E out \in TranslatorOutcomes :
        run' = [run EXCEPT !.pc = "tts",
                           !.hindi_text = translate_to_hindi(run.tts_text, out),
                           !.calls.translate = @ + 1]
    /\ UNCHANGED <<apiVars, call, agg, workers, harnessVars>>

\* utils.py:478-490
RunTts ==
    /\ run.pc = "tts"
    /\ \E out \in SynthesizerOutcomes :
        LET audio_data == generate_tts(run.hindi_text, out) IN
        run' = [run EXCEPT !.pc = "returned",
                           !.calls.tts = @ + 1,
                           !.tts_raised = out.raises,
                           !.result = Result(SuccessKeys, run.company_name, "",
                                             run.valid_articles,
                                             run.comparative_analysis,
                                             run.final_sentiment,
                                             run.hindi_text, audio_data)]
    /\ UNCHANGED <<apiVars, call, agg, workers, harnessVars>>

InitRun ==
    /\ analysis_cache = EmptyDict
    /\ background_tasks = EmptyDict
    /\ inflight = {}
    /\ responses = {}
    /\ nreq = 0
    /\ \E c \in RunCompanies : run = [IdleRun EXCEPT !.pc = "start", !.company_name = c]
    /\ workers = <<>>
    /\ agg = IdleAgg
    /\ call = IdleCall
    /\ resolve = IdleResolve
    /\ pool = IdlePool
    /\ loop = IdleLoop

NextRun ==
    \/ RunResolve
    \/ ProcessExtract
    \/ ProcessSummarize
    \/ ProcessSentiment
    \/ ProcessKeywords
    \/ RunGathered
    \/ RunTranslate
    \/ RunTts

SpecRun == InitRun /\ [][NextRun]_vars

----------------------------------------------------------------------------
(* A direct call of perform_comparative_analysis *)

AggLabels == {"POSITIVE", "NEGATIVE", "NEUTRAL", "LABEL_3"}

AggTopicLists ==
    { <<>>, <<"Sales">>, <<"Regulation">>, <<"Sales", "Regulation">>,
      <<"Sales", "Sales">> }

AggArticles ==
    { Article("T", Text("summary", SummaryLength), Sentiment(l, ModelScore), t, 0) :
        l \in AggLabels, t \in AggTopicLists }

AggAddArticle ==
    /\ agg.pc = "build"
    /\ Len(agg.articles) < MaxArticles
    /\ \E a \in AggArticles : agg' = [agg EXCEPT !.articles = Append(@, a)]
    /\ UNCHANGED <<apiVars, call, run, workers, harnessVars>>

AggCall ==
    /\ agg.pc = "build"
    /\ agg' = [agg EXCEPT !.pc = "done",
                          !.result = perform_comparative_analysis(agg.articles)]
    /\ UNCHANGED <<apiVars, call, run, workers, harnessVars>>

InitAgg ==
    /\ analysis_cache = EmptyDict
    /\ background_tasks = EmptyDict
    /\ inflight = {}
    /\ responses = {}
    /\ nreq = 0
    /\ run = IdleRun
    /\ workers = <<>>
    /\ agg = [IdleAgg EXCEPT !.pc = "build"]
    /\ call = IdleCall
    /\ resolve = IdleResolve
    /\ pool = IdlePool
    /\ loop = IdleLoop

NextAgg == AggAddArticle \/ AggCall

SpecAgg == InitAgg /\ [][NextAgg]_vars

----------------------------------------------------------------------------
(* A direct call of perform_comparative_analysis on a longer list of
   articles that differ in their sentiment labels only *)

LabelledArticles ==
    { Article("T", Text("summary", SummaryLength), Sentiment(l, ModelScore), <<>>, 0) :
        l \in AggLabels }

AggAddLabelled ==
    /\ agg.pc = "build"
    /\ Len(agg.articles) < MaxLabelled
    /\ \E a \in LabelledArticles : agg' = [agg EXCEPT !.articles = Append(@, a)]
    /\ UNCHANGED <<apiVars, call, run, workers, harnessVars>>

NextLabels == AggAddLabelled \/ AggCall

SpecLabels == InitAgg /\ [][NextLabels]_vars

----------------------------------------------------------------------------
(* A direct call of one of the text functions of NewsAnalyzer *)

\* The lengths of the argument: none, one character, and the lengths on
\* either side of each slice and default of the functions.
TextLengths ==
    {0, 1, SummaryMaxLength, SummaryMaxLength + 1, TtsLimit, TtsLimit + 1,
     SummaryInputLimit, SummaryInputLimit + 1, TranslateLimit, TranslateLimit + 1,
     KeywordInputLimit + 1}

TextInputs == { IF n = 0 THEN EmptyText ELSE Text("text", n) : n \in TextLengths }

CallSummarize ==
    /\ call.pc = "ready"
    /\ \E out \in SummarizerOutcomes :
        call' = [call EXCEPT !.pc = "returned", !.fn = "summarize_text",
                             !.raised = out.raises,
                             !.summary = summarize_text(call.text, SummaryMaxLength, out)]
    /\ UNCHANGED <<apiVars, run, workers, agg, harnessVars>>

CallSentiment ==
    /\ call.pc = "ready"
    /\ \E out \in ClassifierOutcomes :
        call' = [call EXCEPT !.pc = "returned", !.fn = "analyze_sentiment",
                             !.raised = out.raises, !.label = out.label,
                             !.sentiment = analyze_sentiment(call.text, out)]
    /\ UNCHANGED <<apiVars, run, workers, agg, harnessVars>>

CallKeywords ==
    /\ call.pc = "ready"
    /\ \E out \in KeywordOutcomes :
        call' = [call EXCEPT !.pc = "returned", !.fn = "extract_keywords",
                             !.raised = out.raises,
                             !.keywords = extract_keywords(call.text, TopN, out)]
    /\ UNCHANGED <<apiVars, run, workers, agg, harnessVars>>

CallTranslate ==
    /\ call.pc = "ready"
    /\ \E out \in TranslatorOutcomes :
        call' = [call EXCEPT !.pc = "returned", !.fn = "translate_to_hindi",
                             !.raised = out.raises,
                             !.hindi = translate_to_hindi(call.text, out)]
    /\ UNCHANGED <<apiVars, run, workers, agg, harnessVars>>

CallTts ==
    /\ call.pc = "ready"
    /\ \E out \in SynthesizerOutcomes :
        call' = [call EXCEPT !.pc = "returned", !.fn = "generate_tts",
                             !.raised = out.raises,
                             !.audio = generate_tts(call.text, out)]
    /\ UNCHANGED <<apiVars, run, workers, agg, harnessVars>>

InitCall ==
    /\ analysis_cache = EmptyDict
    /\ background_tasks = EmptyDict
    /\ inflight = {}
    /\ responses = {}
    /\ nreq = 0
    /\ run = IdleRun
    /\ workers = <<>>
    /\ agg = IdleAgg
    /\ \E text \in TextInputs : call = [IdleCall EXCEPT !.pc = "ready", !.text = text]
    /\ resolve = IdleResolve
    /\ pool = IdlePool
    /\ loop = IdleLoop

NextCall ==
    \/ CallSummarize
    \/ CallSentiment
    \/ CallKeywords
    \/ CallTranslate
    \/ CallTts

SpecCall == InitCall /\ [][NextCall]_vars

----------------------------------------------------------------------------
(* The HTTP service, src/api.py *)

Request(op, arg) == [op |-> op, arg |-> arg]

\* A response: the HTTP status code and the body's fields; data is the empty
\* set for None and a one-element set otherwise.
Response(op, arg, code, status, task_id, completed, data) ==
    [op |-> op, arg |-> arg, code |-> code, status |-> status,
     task_id |-> task_id, completed |-> completed, data |-> data]

\* The object FastAPI passes for a parameter annotated BackgroundTasks
\* (api.py:62) is a fastapi.BackgroundTasks; the class defines add_task and
\* no __setitem__, so a subscript assignment on it raises TypeError.
InjectedSupportsItemAssignment == FALSE

\* POST /analyze-company.  The parameter background_tasks of api.py:62 shadows
\* the module-level dict of api.py:54 inside the handler and its closure, so
\* api.py:109 subscripts the injected object, not the registry.
analyze_company(raw) ==
    LET company_name == strip(raw) IN
    IF company_name = <<>>
    THEN \* api.py:72-73  HTTPException(400)
         /\ responses' = responses \cup
                {Response("analyze", raw, 400, "error", <<>>, FALSE, {})}
         /\ UNCHANGED <<analysis_cache, background_tasks>>
    ELSE IF company_name \in DOMAIN analysis_cache
    THEN \* api.py:76-82
         /\ responses' = responses \cup
                {Response("analyze", raw, 200, "success", company_name, FALSE,
                          {analysis_cache[company_name]})}
         /\ UNCHANGED <<analysis_cache, background_tasks>>
    ELSE \* api.py:85-109: the task id is computed, the closure defined, and
         \* the subscript assignment of line 109 raises; lines 114-121
         \* (create_task, the 'processing' answer) are not reached and the
         \* server answers 500.
         /\ ~InjectedSupportsItemAssignment
         /\ responses' = responses \cup
                {Response("analyze", raw, 500, "error", <<>>, FALSE, {})}
         /\ UNCHANGED <<analysis_cache, background_tasks>>

\* GET /task-status/{task_id}
get_task_status(task_id) ==
    /\ responses' = responses \cup
        { IF task_id \notin DOMAIN background_tasks
          THEN Response("status", task_id, 404, "not found", task_id, FALSE, {})
          ELSE LET task_info == background_tasks[task_id] IN
               IF task_info.completed
               THEN IF "error" \in task_info.keys
                    THEN Response("status", task_id, 200, "failed", task_id, TRUE,
                                  {task_info.error})
                    ELSE Response("status", task_id, 200, "completed", task_id, TRUE,
                                  {task_info.result})
               ELSE Response("status", task_id, 200, "processing", task_id, FALSE, {}) }
    /\ UNCHANGED <<analysis_cache, background_tasks>>

\* GET /available-companies
get_available_companies ==
    /\ responses' = responses \cup
        {Response("companies", <<>>, 200, "ok", <<>>, FALSE, {DOMAIN analysis_cache})}
    /\ UNCHANGED <<analysis_cache, background_tasks>>

\* A client sends a request.
ClientStartAnalysis ==
    \E raw \in RequestNames :
        /\ nreq < MaxRequests
        /\ inflight' = inflight \cup {Request("analyze", raw)}
        /\ nreq' = nreq + 1
        /\ UNCHANGED <<analysis_cache, background_tasks, responses, run, workers, agg, call, harnessVars>>

ClientGetStatus ==
    \E t \in PollIds :
        /\ nreq < MaxRequests
        /\ inflight' = inflight \cup {Request("status", t)}
        /\ nreq' = nreq + 1
        /\ UNCHANGED <<analysis_cache, background_tasks, responses, run, workers, agg, call, harnessVars>>

ClientListCachedCompanies ==
    /\ nreq < MaxRequests
    /\ inflight' = inflight \cup {Request("companies", <<>>)}
    /\ nreq' = nreq + 1
    /\ UNCHANGED <<analysis_cache, background_tasks, responses, run, workers, agg, call, harnessVars>>

\* The server runs the handler of a received request to its end: none of the
\* three handlers awaits.
HandleAnalyze ==
    \E r \in inflight :
        /\ r.op = "analyze"
        /\ inflight' = inflight \ {r}
        /\ analyze_company(r.arg)
        /\ UNCHANGED <<nreq, run, workers, agg, call, harnessVars>>

HandleStatus ==
    \E r \in inflight :
        /\ r.op = "status"
        /\ inflight' = inflight \ {r}
        /\ get_task_status(r.arg)
        /\ UNCHANGED <<nreq, run, workers, agg, call, harnessVars>>

HandleCompanies ==
    \E r \in inflight :
        /\ r.op = "companies"
        /\ inflight' = inflight \ {r}
        /\ get_available_companies
        /\ UNCHANGED <<nreq, run, workers, agg, call, harnessVars>>

Init ==
    /\ analysis_cache = EmptyDict
    /\ background_tasks = EmptyDict
    /\ inflight = {}
    /\ responses = {}
    /\ nreq = 0
    /\ run = IdleRun
    /\ workers = <<>>
    /\ agg = IdleAgg
    /\ call = IdleCall
    /\ resolve = IdleResolve
    /\ pool = IdlePool
    /\ loop = IdleLoop

Next ==
    \/ ClientStartAnalysis
    \/ ClientGetStatus
    \/ ClientListCachedCompanies
    \/ HandleAnalyze
    \/ HandleStatus
    \/ HandleCompanies

Spec == Init /\ [][Next]_vars

\* Every received request is eventually handled by its handler.
FairSpec ==
    /\ Spec
    /\ WF_vars(HandleAnalyze)
    /\ WF_vars(HandleStatus)
    /\ WF_vars(HandleCompanies)

----------------------------------------------------------------------------
(* The start of a run on a long feed, utils.py:444-455 *)

\* entries of a long feed whose redirect follow does not answer 200
MaxDropped == 2

\* feeds of up to one entry more than max_results, of which at most
\* MaxDropped are not followed
WideFeeds ==
    { [raises |-> FALSE,
       entries |-> [k \in 1..n |-> IF k \in D THEN "non200" ELSE "ok"]] :
        n \in 0..(MaxResults + 1),
        D \in {d \in SUBSET (1..(MaxResults + 1)) : Cardinality(d) <= MaxDropped} }

RunResolveWide == RunResolveFrom(WideFeeds)

NextWide == RunResolveWide

SpecWide == InitRun /\ [][NextWide]_vars

----------------------------------------------------------------------------
(* One direct call of get_google_news_urls, utils.py:76-115 *)

\* entries of the feed of a direct call
MaxEntries == 3

\* the feeds of a direct call; in a feed that raises, feedparser.parse or
\* the reading of an entry outside the inner try raises, whatever entries
\* the feed holds
ResolveFeeds ==
    { [raises |-> r, entries |-> e] :
        r \in BOOLEAN,
        e \in UNION { [1..n -> RedirectOutcomes] : n \in 0..MaxEntries } }

\* utils.py:76: the argument max_results, 15 by default
ResolveMaxResults == (0..MaxEntries) \cup {MaxResults}

\* utils.py:87-115: the whole body is inside try/except Exception, so the
\* call returns
CallResolve ==
    /\ resolve.pc = "ready"
    /\ resolve' = [resolve EXCEPT
                     !.pc = "returned",
                     !.urls = get_google_news_urls(resolve.feed, resolve.max_results),
                     !.raised = FALSE]
    /\ UNCHANGED <<apiVars, run, workers, agg, call, pool, loop>>

InitResolve ==
    /\ analysis_cache = EmptyDict
    /\ background_tasks = EmptyDict
    /\ inflight = {}
    /\ responses = {}
    /\ nreq = 0
    /\ run = IdleRun
    /\ workers = <<>>
    /\ agg = IdleAgg
    /\ call = IdleCall
    /\ \E feed \in ResolveFeeds : \E max_results \in ResolveMaxResults :
          resolve = [IdleResolve EXCEPT !.pc = "ready", !.feed = feed,
                                        !.max_results = max_results]
    /\ pool = IdlePool
    /\ loop = IdleLoop

NextResolve == CallResolve

SpecResolve == InitResolve /\ [][NextResolve]_vars

----------------------------------------------------------------------------
(* The executor of the analyzer, utils.py:74.  Every worker operation is    *)
(* handed to it by loop.run_in_executor(self.executor, ...): the article    *)
(* extraction (utils.py:403), the summarization (410), the sentiment (413), *)
(* the keyword extraction (416), the translation (475) and the speech       *)
(* synthesis (478).  The service has one analyzer, api.py:32, so the        *)
(* operations of all URLs and of all runs share the one pool.               *)

\* number of worker operations submitted, over all coroutines and runs
MaxOperations == 6

\* utils.py:74  ThreadPoolExecutor(max_workers=5)
MaxWorkers == 5

Submitted(p) == Len(p.queue) + Cardinality(p.running) + Cardinality(p.done)

\* a pool that starts a thread for every work item
thread_free_unbounded(p) == TRUE

\* utils.py:74: the pool starts a thread only while it has fewer than
\* max_workers of them busy
thread_free(p) == Cardinality(p.running) < MaxWorkers

\* utils.py:403,410,413,416,475,478: a coroutine submits a worker operation
\* and suspends; the operation is numbered by its place in the submissions
PoolSubmit ==
    /\ Submitted(pool) < MaxOperations
    /\ pool' = [pool EXCEPT !.queue = Append(@, Submitted(pool) + 1)]
    /\ UNCHANGED <<apiVars, run, workers, agg, call, resolve, loop>>

\* a thread of the pool takes the oldest waiting operation
PoolStart ==
    /\ pool.queue # <<>>
    /\ thread_free(pool)
    /\ pool' = [pool EXCEPT !.queue = Tail(@), !.running = @ \cup {Head(pool.queue)}]
    /\ UNCHANGED <<apiVars, run, workers, agg, call, resolve, loop>>

\* a running operation returns
PoolComplete ==
    /\ \E i \in pool.running :
        pool' = [pool EXCEPT !.running = @ \ {i}, !.done = @ \cup {i}]
    /\ UNCHANGED <<apiVars, run, workers, agg, call, resolve, loop>>

InitPool ==
    /\ analysis_cache = EmptyDict
    /\ background_tasks = EmptyDict
    /\ inflight = {}
    /\ responses = {}
    /\ nreq = 0
    /\ run = IdleRun
    /\ workers = <<>>
    /\ agg = IdleAgg
    /\ call = IdleCall
    /\ resolve = IdleResolve
    /\ pool = IdlePool
    /\ loop = IdleLoop

NextPool ==
    \/ PoolSubmit
    \/ PoolStart
    \/ PoolComplete

SpecPool == InitPool /\ [][NextPool]_vars

----------------------------------------------------------------------------
(* The event loop.  analyze_company_news is a coroutine; utils.py:444 calls *)
(* get_google_news_urls directly, neither awaited nor handed to the         *)
(* executor, so feedparser.parse (utils.py:94) and every requests.get       *)
(* (utils.py:104) run on the thread of the loop, which returns to the loop  *)
(* at the first await, utils.py:455.  The coroutines of another run resume  *)
(* only when the loop runs them.                                            *)

\* process_article coroutines of another run on the same loop
MaxOthers == 2

\* utils.py:403-416: the executor calls a process_article coroutine awaits
AwaitsPerArticle == 4

OtherCoroutine(state, awaited) == [state |-> state, awaited |-> awaited]

\* utils.py:442-444: the loop runs the coroutine of the run, which enters
\* get_google_news_urls and calls feedparser.parse
LoopRunStarts ==
    /\ loop.thread = "free"
    /\ loop.pc = "start"
    /\ loop' = [loop EXCEPT !.thread = "run", !.pc = "feed"]
    /\ UNCHANGED <<apiVars, run, workers, agg, call, resolve, pool>>

\* utils.py:94-98 and 113-115, 446-450: the parse returns or raises
LoopFeedParsed ==
    /\ loop.pc = "feed"
    /\ \E feed \in Feeds :
        IF feed.raises
        THEN loop' = [loop EXCEPT !.thread = "free", !.pc = "returned"]
        ELSE loop' = [loop EXCEPT !.pc = "follow",
                                  !.entries = Take(feed.entries, MaxResults)]
    /\ UNCHANGED <<apiVars, run, workers, agg, call, resolve, pool>>

\* utils.py:98-109: one iteration of the loop over the entries, a blocking
\* requests.get
LoopFollow ==
    /\ loop.pc = "follow"
    /\ loop.k < Len(loop.entries)
    /\ loop' = [loop EXCEPT !.k = @ + 1,
                            !.urls = IF loop.entries[loop.k + 1] = "ok"
                                     THEN Append(@, loop.k + 1) ELSE @]
    /\ UNCHANGED <<apiVars, run, workers, agg, call, resolve, pool>>

\* utils.py:111-112, 446-455: the resolver returns; the run returns its
\* error result or reaches await asyncio.gather, and the loop is free again
LoopResolved ==
    /\ loop.pc = "follow"
    /\ loop.k = Len(loop.entries)
    /\ loop' = [loop EXCEPT !.thread = "free",
                            !.pc = IF loop.urls = <<>> THEN "returned" ELSE "gather"]
    /\ UNCHANGED <<apiVars, run, workers, agg, call, resolve, pool>>

\* a thread of the executor finishes the operation coroutine j awaits
OtherOperationReturns(j) ==
    /\ loop.others[j].state = "waiting"
    /\ loop' = [loop EXCEPT !.others[j].state = "ready"]
    /\ UNCHANGED <<apiVars, run, workers, agg, call, resolve, pool>>

\* utils.py:403-427: the loop resumes coroutine j, which runs to its next
\* await or returns
OtherResumes(j) ==
    /\ loop.thread = "free"
    /\ loop.others[j].state = "ready"
    /\ loop' = [loop EXCEPT
                  !.others[j] = OtherCoroutine(
                        IF @.awaited + 1 = AwaitsPerArticle THEN "done" ELSE "waiting",
                        @.awaited + 1),
                  !.resumed = @ + 1]
    /\ UNCHANGED <<apiVars, run, workers, agg, call, resolve, pool>>

InitLoop ==
    /\ analysis_cache = EmptyDict
    /\ background_tasks = EmptyDict
    /\ inflight = {}
    /\ responses = {}
    /\ nreq = 0
    /\ run = IdleRun
    /\ workers = <<>>
    /\ agg = IdleAgg
    /\ call = IdleCall
    /\ resolve = IdleResolve
    /\ pool = IdlePool
    /\ loop = [IdleLoop EXCEPT !.pc = "start",
                 !.others = [j \in 1..MaxOthers |-> OtherCoroutine("waiting", 0)]]

NextLoop ==
    \/ LoopRunStarts
    \/ LoopFeedParsed
    \/ LoopFollow
    \/ LoopResolved
    \/ \E j \in 1..MaxOthers : OtherOperationReturns(j)
    \/ \E j \in 1..MaxOthers : OtherResumes(j)

SpecLoop == InitLoop /\ [][NextLoop]_vars

----------------------------------------------------------------------------
(* Properties of the HTTP service *)

\* StartAnalysis was answered for raw, whose stripped name is not empty and
\* was not in the cache
AnsweredUncached(raw) ==
    \E r \in responses :
        /\ r.op = "analyze"
        /\ r.arg = raw
        /\ strip(raw) # <<>>
        /\ r.status # "success"

TaskCompleted(task_id) ==
    /\ task_id \in DOMAIN background_tasks
    /\ background_tasks[task_id].completed

\* C1: StartAnalysis for a non-empty name that is not cached is answered 200
\* 'processing' with the task id of the name, and the task is from then on an
\* entry of the registry that GetStatus reads, so that GetStatus for that id
\* is not answered 'not found'.
C1_StartAnalysisRegistersTask ==
    \A raw \in RequestNames :
        AnsweredUncached(raw) =>
            /\ \A r \in responses :
                  (r.op = "analyze" /\ r.arg = raw) =>
                      \/ r.status = "success"
                      \/ /\ r.code = 200
                         /\ r.status = "processing"
                         /\ r.task_id = task_id_of(strip(raw))
            /\ task_id_of(strip(raw)) \in DOMAIN background_tasks

----------------------------------------------------------------------------
(* Properties of one run of analyze_company_news *)

\* gather has returned
Gathered == run.pc \in {"translate", "tts", "returned"} /\ workers # <<>>

PositionOf(url) == CHOOSE k \in 1..Len(run.urls) : run.urls[k] = url

\* the extraction of the URL of coroutine w failed: it returned an error or
\* no body text
ExtractionFailed(w) ==
    \/ "error" \in w.content.keys
    \/ ~Truthy(w.content.text)

\* the model call of one of the three analyzers raised for the URL of w, and
\* the analyzer returned its default
AnalysisFailed(w) == w.raised # {}

\* The valid articles are exactly the articles of the URLs outside the failed
\* set, in URL order, each built from the outcomes of its own URL alone, and
\* every URL was extracted once, analysed once if extracted, never again.
SurvivorsAre(failed) ==
    LET ok == {i \in 1..Len(workers) : i \notin failed} IN
    /\ Len(run.valid_articles) = Cardinality(ok)
    /\ \A i \in ok :
          LET k == 1 + Cardinality({j \in ok : j < i}) IN
          /\ k <= Len(run.valid_articles)
          /\ run.valid_articles[k] =
                Article(workers[i].content.title, workers[i].summary,
                        workers[i].sentiment, workers[i].topics, run.urls[i])
    /\ \A i \in 1..Len(workers) :
          /\ workers[i].calls.extract = 1
          /\ \A a \in {"summarize", "sentiment", "keywords"} :
                workers[i].calls[a] = IF ExtractionFailed(workers[i]) THEN 0 ELSE 1

\* C4: the valid articles are in the order of the input URLs, whatever the
\* order the per-URL coroutines finished in.
C4_ArticlesInUrlOrder ==
    Gathered =>
        \A a, b \in 1..Len(run.valid_articles) :
            a < b => PositionOf(run.valid_articles[a].url)
                        < PositionOf(run.valid_articles[b].url)

C4_Witness ==
    /\ run.pc = "returned"
    /\ run.out_of_order
    /\ "Articles" \in run.result.keys
    /\ Len(run.result.Articles) >= 2

\* C5: for every subset of URLs whose processing fails (process_article
\* gives an error entry: the extraction returned an error, raised, or gave no
\* body text), the valid articles are exactly the articles of the remaining
\* URLs, each built from its own URL's outcomes alone; every URL is extracted
\* once and, if extracted, analysed once, and none is tried again.  An
\* analyzer whose model call raises returns its default and does not make its
\* URL fail.
C5_FailuresIsolated ==
    Gathered =>
        SurvivorsAre({i \in 1..Len(workers) : ExtractionFailed(workers[i])})

\* one URL failed, and the other, one of whose analyzers fell back to its
\* default, is the only article of the result
C5_Witness ==
    /\ run.pc = "returned"
    /\ \E i, j \in 1..Len(workers) :
          /\ ExtractionFailed(workers[i])
          /\ ~ExtractionFailed(workers[j])
          /\ AnalysisFailed(workers[j])
    /\ Len(run.result.Articles) = 1

\* C6: a run returns the error result (Company and error only, no Articles,
\* no call of the aggregator, the translator or the synthesizer) exactly when
\* the resolver returned no URL or no URL gave a valid article; it returns a
\* result in every case, and a result without error has articles.
C6_ErrorResultExactlyWhenNoArticle ==
    run.pc = "returned" =>
        /\ run.result.keys # {}
        /\ "error" \in run.result.keys <=>
              \/ run.urls = <<>>
              \/ \A i \in 1..Len(workers) : ExtractionFailed(workers[i])
        /\ "error" \in run.result.keys =>
              /\ run.result.keys = {"Company", "error"}
              /\ run.result.Company = run.company_name
              /\ run.result.error # ""
              /\ run.calls = NoCalls
        /\ "error" \notin run.result.keys =>
              /\ "Articles" \in run.result.keys
              /\ run.result.Articles # <<>>

C6_Witness ==
    /\ run.pc = "returned"
    /\ Len(workers) >= 2
    /\ \A i \in 1..Len(workers) : ExtractionFailed(workers[i])
    /\ run.result.keys = {"Company", "error"}

\* C7: every result is either an error result with Company, or fully
\* populated: articles, a comparative analysis with its four fields and a
\* non-empty final analysis, and the top-level final analysis, Hindi text and
\* audio fields.
C7_ResultIsOneOfTwoShapes ==
    run.pc = "returned" =>
        \/ /\ "error" \in run.result.keys
           /\ "Company" \in run.result.keys
        \/ /\ run.result.keys = SuccessKeys
           /\ run.result.Articles # <<>>
           /\ ComparativeKeys \subseteq run.result.ComparativeSentimentScore.keys
           /\ run.result.ComparativeSentimentScore.FinalSentimentAnalysis.len > 0

----------------------------------------------------------------------------
(* Properties of perform_comparative_analysis *)

RECURSIVE SumOver(_, _)
SumOver(f, S) ==
    IF S = {} THEN 0
    ELSE LET x == CHOOSE y \in S : TRUE IN f[x] + SumOver(f, S \ {x})

\* the topics that appear in the topic list of some article
TopicsOf(articles) ==
    UNION { {articles[i].topics[k] : k \in 1..Len(articles[i].topics)} :
              i \in 1..Len(articles) }

\* the keys of a dict kept as a sequence of <<key, value>>
KeysOf(pairs) == {pairs[k][1] : k \in 1..Len(pairs)}

NoRepeat(seq) == \A a, b \in 1..Len(seq) : a # b => seq[a] # seq[b]

LabelsWithin(articles) ==
    \A i \in 1..Len(articles) : articles[i].sentiment.label \in Labels3

\* C9: for an article list whose labels are POSITIVE, NEGATIVE or NEUTRAL,
\* the result has a Sentiment Distribution whose three counts sum to the
\* number of articles.
C9_DistributionSumsToArticleCount ==
    (agg.pc = "done" /\ LabelsWithin(agg.articles)) =>
        /\ "Sentiment Distribution" \in agg.result.keys
        /\ DOMAIN agg.result.SentimentDistribution = Labels3
        /\ SumOver(agg.result.SentimentDistribution, Labels3) = Len(agg.articles)

C9_Witness ==
    /\ agg.pc = "done"
    /\ Len(agg.articles) = MaxArticles
    /\ LabelsWithin(agg.articles)
    /\ \E l \in Labels3 : agg.result.SentimentDistribution[l] >= 2
    /\ \E l \in Labels3 : agg.result.SentimentDistribution[l] = 1

\* C10: in every comparative result, Topic Distribution has exactly the
\* topics that appear in some article's topic list, and Common Topics has
\* exactly the topics whose count there is above 1, each once.
C10_CommonTopicsAreRepeatedTopics ==
    (agg.pc = "done" /\ "Topic Overlap" \in agg.result.keys) =>
        LET dist == agg.result.TopicDistribution
            common == agg.result.CommonTopics
        IN  /\ KeysOf(dist) = TopicsOf(agg.articles)
            /\ NoRepeat([k \in 1..Len(dist) |-> dist[k][1]])
            /\ {common[k] : k \in 1..Len(common)}
                  = {dist[k][1] : k \in {j \in 1..Len(dist) : dist[j][2] > 1}}
            /\ NoRepeat(common)

C10_Witness ==
    /\ agg.pc = "done"
    /\ "Topic Overlap" \in agg.result.keys
    /\ agg.result.CommonTopics = <<"Sales">>
    /\ \E k \in 1..Len(agg.result.TopicDistribution) :
          agg.result.TopicDistribution[k] = <<"Regulation", 1>>

----------------------------------------------------------------------------
(* Properties of the final verdict *)

CountLabel(articles, label) ==
    Cardinality({i \in 1..Len(articles) : articles[i].sentiment.label = label})

ExpectationOf(final_sentiment) ==
    CASE final_sentiment = "mostly positive" -> "Potential positive impact expected."
      [] final_sentiment = "mostly negative" -> "Potential challenges might be ahead."
      [] final_sentiment = "mixed" ->
            "The situation appears complex with both positive and negative aspects."

\* C11: over N >= 1 articles with labels among the three, the verdict is
\* 'mostly positive' exactly when POSITIVE / N > 3/5, otherwise 'mostly
\* negative' exactly when NEGATIVE / N > 3/5, otherwise 'mixed' (3 of 5 is
\* 'mixed'), and each verdict carries its own expectation sentence.
C11_VerdictByThreshold ==
    (agg.pc = "done" /\ Len(agg.articles) >= 1 /\ LabelsWithin(agg.articles)) =>
        LET N == Len(agg.articles)
            positive == CountLabel(agg.articles, "POSITIVE")
            negative == CountLabel(agg.articles, "NEGATIVE")
            verdict == agg.result.FinalSentimentAnalysis
        IN  /\ "Final Sentiment Analysis" \in agg.result.keys
            /\ verdict.final_sentiment =
                  IF 5 * positive > 3 * N THEN "mostly positive"
                  ELSE IF 5 * negative > 3 * N THEN "mostly negative"
                  ELSE "mixed"
            /\ verdict.expectation = ExpectationOf(verdict.final_sentiment)

\* three of five articles are POSITIVE and the verdict is 'mixed'
C11_Witness ==
    /\ agg.pc = "done"
    /\ Len(agg.articles) = 5
    /\ LabelsWithin(agg.articles)
    /\ CountLabel(agg.articles, "POSITIVE") = 3
    /\ agg.result.FinalSentimentAnalysis.final_sentiment = "mixed"

----------------------------------------------------------------------------
(* Properties of the text functions *)

Returned(fn) == call.pc = "returned" /\ call.fn = fn

\* C12: for every text and every outcome of the classifier, a returned label
\* or a failure, analyze_sentiment returns a label among POSITIVE, NEGATIVE
\* and NEUTRAL, and for empty text or a classifier failure exactly
\* NEUTRAL with score 0.5.
C12_SentimentLabelAmongThree ==
    Returned("analyze_sentiment") =>
        /\ call.sentiment.label \in Labels3
        /\ (~Truthy(call.text) \/ call.raised) =>
              call.sentiment = Sentiment("NEUTRAL", DefaultScore)

\* C13: when the translation call fails, translate_to_hindi returns exactly
\* the text it was given, whatever its length, longer than 1500 characters
\* included.
C13_TranslateFailureReturnsInput ==
    (Returned("translate_to_hindi") /\ Truthy(call.text) /\ call.raised) =>
        call.hindi = call.text

\* C14: generate_tts returns the empty value for empty input and for every
\* synthesizer failure, and a run whose narration failed returns a result
\* without error, with Audio empty and with the articles, the comparative
\* analysis, the final analysis and the Hindi text it had computed before,
\* fully populated when the articles' labels are among the three.
C14_NarrationFailureKeepsResult ==
    /\ \A t \in TextInputs : \A out \in SynthesizerOutcomes :
          (~Truthy(t) \/ out.raises) => generate_tts(t, out) = EmptyText
    /\ (run.pc = "returned" /\ run.tts_raised) =>
          /\ run.result.keys = SuccessKeys
          /\ run.result.Audio = EmptyText
          /\ run.result.Articles = run.valid_articles
          /\ run.result.Articles # <<>>
          /\ run.result.ComparativeSentimentScore = run.comparative_analysis
          /\ run.result.FinalSentimentAnalysis = run.final_sentiment
          /\ run.result.HindiText = run.hindi_text
          /\ Truthy(run.result.HindiText)
          /\ LabelsWithin(run.valid_articles) =>
                /\ run.result.ComparativeSentimentScore.keys = ComparativeKeys
                /\ run.result.FinalSentimentAnalysis.len > 0

C14_Witness ==
    /\ run.pc = "returned"
    /\ run.tts_raised
    /\ Len(run.result.Articles) = 2
    /\ LabelsWithin(run.valid_articles)
    /\ run.result.Audio = EmptyText

----------------------------------------------------------------------------
(* Properties of the HTTP service: the cache and repeated requests *)

\* No handler writes the cache or the registry: the only writes are those of
\* api.py:94, 97, 103 and 109, and none of them is completed in any behaviour.
ServiceStateNeverWritten ==
    /\ analysis_cache = EmptyDict
    /\ background_tasks = EmptyDict

\* C17: two StartAnalysis requests that name the same company and are both
\* answered while the company is not cached each start a run of their own:
\* both are answered 'processing' and the company's task is registered.
C17_SameCompanyRequestsBothRun ==
    \A r1, r2 \in RequestNames :
        (r1 # r2 /\ strip(r1) = strip(r2)
            /\ AnsweredUncached(r1) /\ AnsweredUncached(r2)) =>
            /\ \A r \in responses :
                  (r.op = "analyze" /\ r.arg \in {r1, r2}) =>
                      r.code = 200 /\ r.status = "processing"
            /\ task_id_of(strip(r1)) \in DOMAIN background_tasks

----------------------------------------------------------------------------
(* Properties of the topic overlap and the coverage differences *)

\* the number of articles whose topic list holds the topic
ArticlesWith(articles, topic) ==
    Cardinality({i \in 1..Len(articles) :
                    \E k \in 1..Len(articles[i].topics) : articles[i].topics[k] = topic})

\* C18: a topic is in Common Topics exactly when it is in the topic lists of
\* at least two different articles, and its count in Topic Distribution is
\* the number of articles that list it, a repeat inside one list counting
\* once.
C18_CommonTopicsInTwoArticles ==
    (agg.pc = "done" /\ "Topic Overlap" \in agg.result.keys) =>
        LET dist == agg.result.TopicDistribution
            common == agg.result.CommonTopics
        IN  \A t \in TopicsOf(agg.articles) :
                /\ (\E k \in 1..Len(common) : common[k] = t)
                      <=> ArticlesWith(agg.articles, t) >= 2
                /\ \E k \in 1..Len(dist) :
                      dist[k] = <<t, ArticlesWith(agg.articles, t)>>

\* the 0-based index pairs the comparison covers, whose labels differ
DifferingPairs(articles) ==
    LET N == Len(articles) IN
    { p \in (0..2) \X (1..3) :
        /\ p[1] < Min(3, N)
        /\ p[1] < p[2]
        /\ p[2] < Min(4, N)
        /\ articles[p[1] + 1].sentiment.label # articles[p[2] + 1].sentiment.label }

\* C19: for N articles with labels among the three, Coverage Differences has
\* exactly one entry for each pair (i, j), 0 <= i < min(3, N),
\* i < j < min(4, N), whose labels differ, in increasing (i, j) order, naming
\* the positions i+1 and j+1 and the two labels; so it has at most 6 entries,
\* names no position above 4, and is empty when N < 2.
C19_CoverageWindow ==
    (agg.pc = "done" /\ LabelsWithin(agg.articles)) =>
        LET cd == agg.result.CoverageDifferences
            pairs == DifferingPairs(agg.articles)
        IN  /\ "Coverage Differences" \in agg.result.keys
            /\ Len(cd) = Cardinality(pairs)
            /\ Len(cd) <= 6
            /\ Len(agg.articles) < 2 => cd = <<>>
            /\ \A k \in 1..Len(cd) :
                  /\ <<cd[k].first - 1, cd[k].second - 1>> \in pairs
                  /\ cd[k].second <= 4
                  /\ cd[k].sentiment_first =
                        lower_label(agg.articles[cd[k].first].sentiment.label)
                  /\ cd[k].sentiment_second =
                        lower_label(agg.articles[cd[k].second].sentiment.label)
            /\ \A k, m \in 1..Len(cd) :
                  k < m => \/ cd[k].first < cd[m].first
                           \/ cd[k].first = cd[m].first /\ cd[k].second < cd[m].second

\* five articles, the fifth unlike the first, and five entries for the
\* first four
C19_Witness ==
    /\ agg.pc = "done"
    /\ Len(agg.articles) = 5
    /\ LabelsWithin(agg.articles)
    /\ agg.articles[5].sentiment.label # agg.articles[1].sentiment.label
    /\ Len(agg.result.CoverageDifferences) = 5

----------------------------------------------------------------------------
(* Properties of summarize_text *)

\* C20: the summary summarize_text returns has at most max_length characters:
\* it is empty for empty text, and when the summarization model fails it is
\* the text cut so that, marker included, it has at most max_length
\* characters.
C20_SummaryWithinMaxLength ==
    Returned("summarize_text") =>
        /\ call.summary.len <= SummaryMaxLength
        /\ ~Truthy(call.text) => call.summary = EmptyText
----------------------------------------------------------------------------
(* C21 *)

AnalyzerCalls(w) == w.calls.summarize + w.calls.sentiment + w.calls.keywords

\* C21: for a URL whose extraction reports an error or yields no body text,
\* none of summarize_text, analyze_sentiment and extract_keywords is ever
\* called, and the URL yields an entry with an error that is not among the
\* valid articles; for a URL whose extraction succeeds, each of the three
\* analyzers runs exactly once, and only after the extraction has returned.
C21_AnalyzersOnlyAfterGoodExtraction ==
    \A i \in 1..Len(workers) :
        LET w == workers[i] IN
        /\ w.calls.extract <= 1
        /\ w.calls.summarize <= 1 /\ w.calls.sentiment <= 1 /\ w.calls.keywords <= 1
        /\ AnalyzerCalls(w) > 0 =>
              /\ w.calls.extract = 1
              /\ w.content.keys # {}
              /\ ~ExtractionFailed(w)
        /\ (w.calls.extract = 1 /\ ExtractionFailed(w)) =>
              /\ AnalyzerCalls(w) = 0
              /\ w.stage = "done"
              /\ w.result.keys = {"url", "error"}
              /\ w.result.url = w.url
              /\ w.result.error # ""
              /\ \A k \in 1..Len(run.valid_articles) :
                    run.valid_articles[k].url # w.url
        /\ (w.stage = "done" /\ ~ExtractionFailed(w)) =>
              /\ w.calls.summarize = 1
              /\ w.calls.sentiment = 1
              /\ w.calls.keywords = 1

\* the run has returned; the extraction of one URL gave no body text and no
\* error, that of the other succeeded and its three analyzers ran once
C21_Witness ==
    /\ run.pc = "returned"
    /\ \E i, j \in 1..Len(workers) :
          /\ workers[i].calls.extract = 1
          /\ "error" \notin workers[i].content.keys
          /\ ~Truthy(workers[i].content.text)
          /\ AnalyzerCalls(workers[i]) = 0
          /\ ~ExtractionFailed(workers[j])
          /\ AnalyzerCalls(workers[j]) = 3

----------------------------------------------------------------------------
(* C22 *)

\* C22: within one run the stages happen in the order resolving, per-URL
\* extraction and analysis, aggregation, translation, narration, completion:
\* a process_article coroutine exists only once the URLs are resolved, the
\* aggregation is called only after every coroutine of the run has returned,
\* the translation only after the aggregation has produced the verdict, the
\* narration only after the translation has returned, and the run returns
\* only after the narration has returned or with a run-level error result.
C22_StagesInOrder ==
    /\ run.pc = "start" => workers = <<>> /\ run.calls = NoCalls
    /\ workers # <<>> => Len(run.urls) = Len(workers)
    /\ run.pc = "gather" => run.calls = NoCalls
    /\ run.calls.aggregate >= 1 =>
          /\ run.calls.aggregate = 1
          /\ \A i \in 1..Len(workers) : workers[i].stage = "done"
          /\ run.final_sentiment = run.comparative_analysis.FinalSentimentAnalysis
    /\ run.pc = "translate" => run.calls = [NoCalls EXCEPT !.aggregate = 1]
    /\ run.calls.translate >= 1 =>
          run.calls.translate = 1 /\ run.calls.aggregate = 1
    /\ run.pc = "tts" => run.calls = [aggregate |-> 1, translate |-> 1, tts |-> 0]
    /\ run.calls.tts >= 1 =>
          run.calls.tts = 1 /\ run.calls.translate = 1 /\ run.pc = "returned"
    /\ run.pc = "returned" =>
          \/ run.result.keys = {"Company", "error"} /\ run.calls = NoCalls
          \/ run.result.keys = SuccessKeys /\ run.calls.tts = 1
    /\ run.pc # "returned" => run.result = NoResult

\* a run of two URLs has returned a success result after one call each of
\* the aggregation, the translation and the narration
C22_Witness ==
    /\ run.pc = "returned"
    /\ Len(workers) = 2
    /\ run.out_of_order
    /\ run.calls = [aggregate |-> 1, translate |-> 1, tts |-> 1]
    /\ run.result.keys = SuccessKeys

----------------------------------------------------------------------------
(* C23 *)

\* C23: at no time do more than 5 worker operations (article extraction,
\* summarization, sentiment, keyword extraction, translation, speech
\* synthesis) execute concurrently, counted over all URLs of a run and over
\* all runs of the process.
C23_AtMostFiveOperationsRun ==
    Cardinality(pool.running) <= 5

\* five operations run while a sixth, submitted, waits for a thread
C23_Witness ==
    /\ Cardinality(pool.running) = 5
    /\ pool.queue # <<>>

----------------------------------------------------------------------------
(* C24 *)

\* C24: the feed query and the redirect resolution of a run are suspension
\* points: while one run is querying the feed and following redirects, a
\* worker of another run whose operation has returned can be resumed.
C24_OthersProgressDuringResolution ==
    loop.pc \in {"feed", "follow"} =>
        \A j \in 1..Len(loop.others) :
            loop.others[j].state = "ready" => ENABLED OtherResumes(j)

----------------------------------------------------------------------------
(* C25 *)

\* the feed entries get_google_news_urls examines
Examined == 1..Min(resolve.max_results, Len(resolve.feed.entries))

\* C25: get_google_news_urls never raises; it examines at most max_results
\* feed entries, in feed order, and returns the final URLs of exactly those
\* examined entries whose redirect follow succeeded, in feed order; an entry
\* whose follow fails or does not answer 200 is dropped without affecting
\* the others, and a failure of the feed itself yields the empty list.
C25_ResolverReturnsFollowedEntries ==
    resolve.pc = "returned" =>
        LET followed == {k \in Examined : resolve.feed.entries[k] = "ok"} IN
        /\ ~resolve.raised
        /\ resolve.feed.raises => resolve.urls = <<>>
        /\ ~resolve.feed.raises =>
              /\ Len(resolve.urls) = Cardinality(followed)
              /\ \A k \in 1..Len(resolve.urls) : resolve.urls[k] \in followed
              /\ \A a, b \in 1..Len(resolve.urls) :
                    a < b => resolve.urls[a] < resolve.urls[b]

\* the feed holds more entries than max_results, the entry beyond the limit
\* would have been followed, and of the examined entries one was dropped
\* and a later one returned
C25_Witness ==
    /\ resolve.pc = "returned"
    /\ ~resolve.feed.raises
    /\ resolve.max_results = 2
    /\ resolve.feed.entries = <<"non200", "ok", "ok">>
    /\ resolve.urls = <<2>>

----------------------------------------------------------------------------
(* C26 *)

\* C26: extract_article_content always returns a structured result with the
\* source URL, and whenever the page fetch fails, or the fetched page has an
\* empty or unextractable body, the result carries an extraction error
\* reason.
C26_ExtractionFailureCarriesReason ==
    \A i \in 1..Len(workers) :
        workers[i].calls.extract = 1 =>
            LET content == workers[i].content IN
            /\ {"title", "text", "url"} \subseteq content.keys
            /\ content.url = workers[i].url
            /\ ~Truthy(content.text) =>
                  "error" \in content.keys /\ content.error # ""

----------------------------------------------------------------------------
(* C27, C28, C29 *)

\* No answer of POST /analyze-company carries a task id, and no answer of
\* GET /task-status reports a registered task: the handler answers 400 or
\* 500, the cache branch of api.py:75-82 and the answer of api.py:117-121
\* are not reached.
NoTaskIdReturned ==
    \A r \in responses :
        /\ r.op = "analyze" => r.code \in {400, 500} /\ r.task_id = <<>>
        /\ r.op = "status" => r.code = 404

----------------------------------------------------------------------------
(* C30 *)

\* C30: a run extracts and analyses only the first 10 resolved URLs, in feed
\* order, even when the resolver returns more (up to 15): the
\* process_article coroutines of the run, which alone fetch pages, are those
\* of the first ten URLs the resolver returned, one each and in that order,
\* and the Articles list of a result never has more than 10 entries.
C30_OnlyFirstTenUrls ==
    /\ Len(run.resolved) <= 15
    /\ Len(workers) = (IF Len(run.resolved) > 10 THEN 10 ELSE Len(run.resolved))
    /\ \A i \in 1..Len(workers) : workers[i].url = run.resolved[i]
    /\ \A k \in 1..Len(run.valid_articles) :
          \E i \in 1..Len(workers) : run.valid_articles[k].url = workers[i].url
    /\ Len(run.valid_articles) <= 10
    /\ Len(run.result.Articles) <= 10

\* the resolver returned fourteen URLs, one of the first ten feed entries
\* having been dropped, and the run started ten coroutines, the last for the
\* eleventh entry
C30_Witness ==
    /\ run.pc = "gather"
    /\ Len(run.resolved) = 14
    /\ Len(workers) = 10
    /\ workers[10].url = 11

====
